---- MODULE Spec2Model ----
(***************************************************************************)
(* A model of PriceLevelBTreeOrderBook<usize, usize, Uuid>                 *)
(* (src/src/price_level_b_tree_order_book.rs) and of the containers it     *)
(* uses (src/src/util.rs).                                                 *)
(*                                                                         *)
(* A BTreeMap<PriceT, NonEmpty<VecDeque<(OrderIdT, QuantityT)>>> is a      *)
(* function whose DOMAIN is the set of keys; a queue is a sequence of      *)
(* <<id, quantity>> pairs, front first.  Option<NonEmpty<..>> is a         *)
(* sequence that may be empty: <<>> is None.                               *)
(* uuid::Uuid::new_v4() is modelled by a counter (next_id): every call     *)
(* yields an identifier never seen before, and identifiers grow with the   *)
(* time of arrival.                                                        *)
(* A conditional_buy / conditional_sell call that reaches its `condition`  *)
(* callback is split at the callback: the book is left as the code has it  *)
(* when the callback runs, and the callback's ControlFlow is the input of  *)
(* the second half.                                                        *)
(***************************************************************************)
EXTENDS Integers, Sequences, FiniteSets, TLC

\* ---------------------------------------------------------------- bounds
MaxPrice == 2
MaxQuantity == 2
MaxOrders == 3
\* width of QuantityT in the model (usize in the test instantiation)
QuantityBits == 3
\* containers used on their own: queue length, element values, map keys
MaxLen == 3
MaxValue == 2
MaxKey == 2

Prices == 1..MaxPrice
Quantities == 1..MaxQuantity
\* the values of QuantityT a caller may hold before Positive::new
RawQuantities == 0..MaxQuantity
OrderIds == 1..MaxOrders
QuantityModulus == 2 ^ QuantityBits
\* the caller's abort reasons (BuyAbortReasonT / SellAbortReasonT)
Reasons == {"R1", "R2"}
\* Option::None for a number
None == 0 - 1

VARIABLES
    buys,                \* self.buys
    sells,               \* self.sells
    ids_to_price_level,  \* self.ids_to_price_level
    next_id,             \* the identifier source: the next fresh identifier
    overflow_checks,     \* the build: TRUE panics on usize underflow, FALSE wraps
    pc,                  \* "idle", or "condition" while the callback runs
    call,                \* the call in progress, or the last call made
    cond_args,           \* what `condition` was invoked with during `call`
    cond_ret,            \* what `condition` returned: "Continue" or the Break reason
    result,              \* what the last call returned
    failure,             \* "none", or the message of the panic that ended the run
    returned_ids,        \* history: the ids returned so far by 'entered book'
    nonempty,            \* a NonEmpty<Vec<T>> / NonEmpty<VecDeque<T>> used on its own
    btree_map,           \* a BTreeMap<KeyT, ValueT> used on its own
    container_call,      \* the last call made on nonempty or btree_map
    container_failure    \* "none", or the message of the panic of that call

vars == <<buys, sells, ids_to_price_level, next_id, overflow_checks, pc, call,
          cond_args, cond_ret, result, failure, returned_ids,
          nonempty, btree_map, container_call, container_failure>>
book == <<buys, sells, ids_to_price_level>>
order_book == <<buys, sells, ids_to_price_level, next_id, overflow_checks, pc, call,
                cond_args, cond_ret, result, failure, returned_ids>>
containers == <<nonempty, btree_map, container_call, container_failure>>

\* ------------------------------------------------------------ containers
\* BTreeMap::first_entry / last_entry: the entry with the least / greatest key
first_key(map) == CHOOSE k \in DOMAIN map : \A j \in DOMAIN map : k <= j
last_key(map) == CHOOSE k \in DOMAIN map : \A j \in DOMAIN map : k >= j
\* remove with a fault seeded: the entry is read and left in the map
remove_leaves_entry(map, key) == map
\* BTreeMap::remove / OccupiedEntry::remove_entry / HashMap::remove
remove(map, key) == [k \in DOMAIN map \ {key} |-> map[k]]

\* NonEmpty::vecdeque(value)
vecdeque(value) == <<value>>
\* push_back with a fault seeded: the value goes to the front of the queue
push_back_at_front(level, value) == <<value>> \o level
\* NonEmpty<VecDeque>::push_back
push_back(level, value) == Append(level, value)
push_front(level, value) == <<value>> \o level
front(level) == Head(level)
\* pop_front with a fault seeded: takes the newest element, as pop_back does
pop_front_takes_back(level) ==
    [rest |-> SubSeq(level, 1, Len(level) - 1), value |-> level[Len(level)]]
\* NonEmpty<VecDeque>::pop_front: (Option<Self>, T); rest = <<>> is None
pop_front(level) == [rest |-> Tail(level), value |-> Head(level)]

\* insert_uncontended with a fault seeded: a clobbered value is not noticed
insert_uncontended_overwrites(map, key, value) ==
    [map |-> (key :> value) @@ map, contended |-> FALSE]
\* BTreeMapExt::insert_uncontended: BTreeMap::insert, then panic if a value
\* was clobbered
insert_uncontended(map, key, value) ==
    [map |-> (key :> value) @@ map, contended |-> key \in DOMAIN map]

\* --------------------------------------------------------------- outcomes
\* Outcome with a fault seeded: the spread is not carried into the outcome
Outcome_without_spread(kind, id, remaining, spread, reason) ==
    [kind |-> kind, id |-> id, remaining |-> remaining, spread |-> None,
     reason |-> reason, quantity |-> None, unit_price |-> None]
\* A value of BuyEntryOrExecution / SellEntryOrExecution / the Err(reason) of
\* the conditional calls / BuyOrSell / Cancelled / NoSuchOrder.  id is the
\* counterparty (seller, buyer) or the new order's id; remaining is
\* sellers_remaining or buyers_remaining; fields a variant lacks are None.
Outcome(kind, id, remaining, spread, reason) ==
    [kind |-> kind, id |-> id, remaining |-> remaining, spread |-> spread,
     reason |-> reason, quantity |-> None, unit_price |-> None]
\* BuyOrSell::Buy { quantity, unit_price } / BuyOrSell::Sell { .. }
QueryOutcome(side, quantity, unit_price) ==
    [Outcome(side, None, None, None, "") EXCEPT
        !.quantity = quantity, !.unit_price = unit_price]
NoOutcome == Outcome("none", None, None, None, "")
\* the value of the book and what the call gave, after a call or part of one
Post(b, s, i, r, f) ==
    [buys |-> b, sells |-> s, ids |-> i, result |-> r, failure |-> f]
Panicked(b, s, i, message) == Post(b, s, i, Outcome("panic", None, None, None, ""), message)

\* Positive::new with a fault seeded: the bound is checked with >=, so zero passes
positive_new_accepts_zero(quantity) == IF quantity >= 0 THEN quantity ELSE None
\* numwit::Positive::new(quantity): Some(Positive(quantity)) when quantity is
\* above zero, else None; a Positive is modelled by the number it wraps
positive_new(quantity) == IF quantity > 0 THEN quantity ELSE None

\* usize subtraction: exact when it does not underflow; on underflow a build
\* without overflow checks wraps
wrapping_sub(a, b) == (a - b) % QuantityModulus
underflows(a, b) == a < b

\* condition_break with a fault seeded: the best ask level is taken out of the map
\* (remove_entry) before the callback's answer is looked at
condition_break_after_remove(b, s, i, reason) ==
    Post(b, IF DOMAIN s # {} THEN remove(s, first_key(s)) ELSE s, i,
         Outcome("Aborted", None, None, None, reason), "none")
\* `condition` returned ControlFlow::Break(reason): return Err(reason), before
\* remove_entry or any other change
condition_break(b, s, i, reason) ==
    Post(b, s, i, Outcome("Aborted", None, None, None, reason), "none")

\* ------------------------------------------------------- conditional_buy
\* self.sells.first_entry(): the key of the ask level the call looks at
ask_level(s) == first_key(s)
\* buy_crosses with a fault seeded: an ask equal to the bid does not cross
buy_crosses_strictly(s, unit_price) ==
    DOMAIN s # {} /\ ask_level(s) < unit_price
\* the match guard of conditional_buy: a best ask exists and is <= unit_price
buy_crosses(s, unit_price) ==
    DOMAIN s # {} /\ ask_level(s) <= unit_price
\* the argument the callback gets: the front of the best ask level
buy_condition_arg(s) == front(s[ask_level(s)])[1]

\* buy_commit with a fault seeded: the partial-fill branch is taken for
\* quantity <= seller_quantity, so an equal quantity leaves the seller with 0
buy_commit_fills_to_zero(b, s, i, checks, quantity, unit_price) ==
    LET ask_price == ask_level(s)
        level == s[ask_price]
        s1 == remove(s, ask_price)
        popped == pop_front(level)
        remaining_level == popped.rest
        seller_id == popped.value[1]
        seller_quantity == popped.value[2]
        spread == IF ask_price < unit_price THEN unit_price - ask_price ELSE None
    IN  IF quantity <= seller_quantity THEN
            LET sellers_remaining == seller_quantity - quantity
                ins == insert_uncontended(s1, ask_price,
                           IF remaining_level # <<>>
                           THEN push_front(remaining_level, <<seller_id, sellers_remaining>>)
                           ELSE vecdeque(<<seller_id, sellers_remaining>>))
            IN  IF ins.contended
                THEN Panicked(b, ins.map, i, "key was contended")
                ELSE Post(b, ins.map, i,
                          Outcome("BuyerFullyExecuted", seller_id, sellers_remaining, spread, ""),
                          "none")
        ELSE IF quantity = seller_quantity THEN
            LET i1 == remove(i, seller_id)
                ins == insert_uncontended(s1, ask_price, remaining_level)
                s2 == IF remaining_level # <<>> THEN ins.map ELSE s1
            IN  IF remaining_level # <<>> /\ ins.contended
                THEN Panicked(b, s2, i1, "key was contended")
                ELSE Post(b, s2, i1,
                          Outcome("MutualFullExecution", seller_id, None, spread, ""),
                          "none")
        ELSE
            \* let buyers_remaining = seller_quantity - quantity;
            IF underflows(seller_quantity, quantity) /\ checks
            THEN Panicked(b, s1, i, "attempt to subtract with overflow")
            ELSE
            LET buyers_remaining == wrapping_sub(seller_quantity, quantity)
                i1 == remove(i, seller_id)
                ins == insert_uncontended(s1, ask_price, remaining_level)
                s2 == IF remaining_level # <<>> THEN ins.map ELSE s1
            IN  IF remaining_level # <<>> /\ ins.contended
                THEN Panicked(b, s2, i1, "key was contended")
                ELSE Post(b, s2, i1,
                          Outcome("SellerFullyExecuted", seller_id, buyers_remaining, spread, ""),
                          "none")
\* "a trade will occur": conditional_buy after `condition` returned Continue
buy_commit(b, s, i, checks, quantity, unit_price) ==
    LET ask_price == ask_level(s)
        level == s[ask_price]
        s1 == remove(s, ask_price)
        popped == pop_front(level)
        remaining_level == popped.rest
        seller_id == popped.value[1]
        seller_quantity == popped.value[2]
        spread == IF ask_price < unit_price THEN unit_price - ask_price ELSE None
    IN  IF quantity < seller_quantity THEN
            LET sellers_remaining == seller_quantity - quantity
                ins == insert_uncontended(s1, ask_price,
                           IF remaining_level # <<>>
                           THEN push_front(remaining_level, <<seller_id, sellers_remaining>>)
                           ELSE vecdeque(<<seller_id, sellers_remaining>>))
            IN  IF ins.contended
                THEN Panicked(b, ins.map, i, "key was contended")
                ELSE Post(b, ins.map, i,
                          Outcome("BuyerFullyExecuted", seller_id, sellers_remaining, spread, ""),
                          "none")
        ELSE IF quantity = seller_quantity THEN
            LET i1 == remove(i, seller_id)
                ins == insert_uncontended(s1, ask_price, remaining_level)
                s2 == IF remaining_level # <<>> THEN ins.map ELSE s1
            IN  IF remaining_level # <<>> /\ ins.contended
                THEN Panicked(b, s2, i1, "key was contended")
                ELSE Post(b, s2, i1,
                          Outcome("MutualFullExecution", seller_id, None, spread, ""),
                          "none")
        ELSE
            \* let buyers_remaining = seller_quantity - quantity;
            IF underflows(seller_quantity, quantity) /\ checks
            THEN Panicked(b, s1, i, "attempt to subtract with overflow")
            ELSE
            LET buyers_remaining == wrapping_sub(seller_quantity, quantity)
                i1 == remove(i, seller_id)
                ins == insert_uncontended(s1, ask_price, remaining_level)
                s2 == IF remaining_level # <<>> THEN ins.map ELSE s1
            IN  IF remaining_level # <<>> /\ ins.contended
                THEN Panicked(b, s2, i1, "key was contended")
                ELSE Post(b, s2, i1,
                          Outcome("SellerFullyExecuted", seller_id, buyers_remaining, spread, ""),
                          "none")

\* "Ask is too high, or no sellers": the order enters the book under a new id
buy_enter(b, s, i, id, quantity, unit_price) ==
    LET b1 == IF unit_price \in DOMAIN b
              THEN [b EXCEPT ![unit_price] = push_back(@, <<id, quantity>>)]
              ELSE (unit_price :> vecdeque(<<id, quantity>>)) @@ b
    IN  IF id \in DOMAIN i
        THEN Panicked(b1, s, i, "uuid collision")
        ELSE Post(b1, s, (id :> [side |-> "Buy", price |-> unit_price]) @@ i,
                  Outcome("EnteredOrderBook", id, None, None, ""), "none")

\* ------------------------------------------------------ conditional_sell
\* self.buys.last_entry(): the key of the bid level the call looks at
bid_level(b) == last_key(b)
\* the match guard of conditional_sell: a best bid exists and is >= unit_price
sell_crosses(b, unit_price) ==
    DOMAIN b # {} /\ bid_level(b) >= unit_price
\* the argument the callback gets: the front of the best bid level
sell_condition_arg(b) == front(b[bid_level(b)])[1]

\* "a trade will occur": conditional_sell after `condition` returned Continue
sell_commit(b, s, i, checks, quantity, unit_price) ==
    LET bid_price == bid_level(b)
        level == b[bid_price]
        b1 == remove(b, bid_price)
        popped == pop_front(level)
        remaining_level == popped.rest
        buyer_id == popped.value[1]
        buyer_quantity == popped.value[2]
        spread == IF bid_price > unit_price THEN bid_price - unit_price ELSE None
    IN  IF quantity < buyer_quantity THEN
            LET buyers_remaining == buyer_quantity - quantity
                \* self.sells.insert_uncontended(bid_price, ..)
                ins == insert_uncontended(s, bid_price,
                           IF remaining_level # <<>>
                           THEN push_front(remaining_level, <<buyer_id, buyers_remaining>>)
                           ELSE vecdeque(<<buyer_id, buyers_remaining>>))
            IN  IF ins.contended
                THEN Panicked(b1, ins.map, i, "key was contended")
                ELSE Post(b1, ins.map, i,
                          Outcome("SellerFullyExecuted", buyer_id, buyers_remaining, spread, ""),
                          "none")
        ELSE IF quantity = buyer_quantity THEN
            LET i1 == remove(i, buyer_id)
                \* self.buys.insert_uncontended(bid_price, remaining_level)
                ins == insert_uncontended(b1, bid_price, remaining_level)
                b2 == IF remaining_level # <<>> THEN ins.map ELSE b1
            IN  IF remaining_level # <<>> /\ ins.contended
                THEN Panicked(b2, s, i1, "key was contended")
                ELSE Post(b2, s, i1,
                          Outcome("MutualFullExecution", buyer_id, None, spread, ""),
                          "none")
        ELSE
            \* let sellers_remaining = buyer_quantity - quantity;
            IF underflows(buyer_quantity, quantity) /\ checks
            THEN Panicked(b1, s, i, "attempt to subtract with overflow")
            ELSE
            LET sellers_remaining == wrapping_sub(buyer_quantity, quantity)
                i1 == remove(i, buyer_id)
                \* self.sells.insert_uncontended(bid_price, remaining_level)
                ins == insert_uncontended(s, bid_price, remaining_level)
                s2 == IF remaining_level # <<>> THEN ins.map ELSE s
            IN  IF remaining_level # <<>> /\ ins.contended
                THEN Panicked(b1, s2, i1, "key was contended")
                ELSE Post(b1, s2, i1,
                          Outcome("BuyerFullyExecuted", buyer_id, sellers_remaining, spread, ""),
                          "none")

\* "No bids are high enough, or no buyers"
sell_enter(b, s, i, id, quantity, unit_price) ==
    LET s1 == IF unit_price \in DOMAIN s
              THEN [s EXCEPT ![unit_price] = push_back(@, <<id, quantity>>)]
              ELSE (unit_price :> vecdeque(<<id, quantity>>)) @@ s
    IN  IF id \in DOMAIN i
        THEN Panicked(b, s1, i, "uuid collision")
        ELSE Post(b, s1, (id :> [side |-> "Sell", price |-> unit_price]) @@ i,
                  Outcome("EnteredOrderBook", id, None, None, ""), "none")

\* --------------------------------------- unconditional_buy / _sell (api.rs)
\* the name of the field that carries `remaining` in the value a call returns
\* with this variant: BuyResult / SellResult for the conditional calls,
\* UnconditionalBuyResult / UnconditionalSellResult for the unconditional ones
remaining_field(op, kind) ==
    IF kind = "BuyerFullyExecuted" THEN "sellers_remaining"
    ELSE IF kind = "SellerFullyExecuted"
         THEN IF op = "unconditional_sell" THEN "sellers_remaining" ELSE "buyers_remaining"
    ELSE "none"
\* the match on the value conditional_buy / conditional_sell returned: every
\* variant is rebuilt from its counterparty and its remainder; the abort
\* variant is unreachable!()
unconditional_result(op, post) ==
    IF post.failure # "none" THEN post
    ELSE IF post.result.kind = "Aborted"
    THEN Panicked(post.buys, post.sells, post.ids,
                  "aborted but no condition was given")
    ELSE [post EXCEPT !.result =
             Outcome(post.result.kind, post.result.id, post.result.remaining, None, "")]

\* ----------------------------------------------------------------- query
\* .iter().find_map(..): the quantity of the first pair of the level with this id
find_quantity(level, id) ==
    LET hits == {n \in 1..Len(level) : level[n][1] = id}
    IN  IF hits = {} THEN None
        ELSE level[CHOOSE n \in hits : \A m \in hits : n <= m][2]

\* query with a fault seeded: the index lookup is unwrapped with expect(), so
\* an unknown id panics instead of giving NoSuchOrder
query_expects_known_id(b, s, i, id) ==
    IF id \notin DOMAIN i THEN Panicked(b, s, i, "stale ids_to_price_level")
    ELSE
    LET tag == i[id]
        side == IF tag.side = "Buy" THEN b ELSE s
    IN  IF tag.price \notin DOMAIN side
        THEN Panicked(b, s, i, "stale ids_to_price_level")
        ELSE LET quantity == find_quantity(side[tag.price], id)
             IN  IF quantity = None
                 THEN Panicked(b, s, i, "stale ids_to_price_level")
                 ELSE Post(b, s, i, QueryOutcome(tag.side, quantity, tag.price), "none")
\* query: the index gives the side and level, the level gives the quantity
query(b, s, i, id) ==
    IF id \notin DOMAIN i THEN Post(b, s, i, Outcome("NoSuchOrder", None, None, None, ""), "none")
    ELSE
    LET tag == i[id]
        side == IF tag.side = "Buy" THEN b ELSE s
    IN  IF tag.price \notin DOMAIN side
        THEN Panicked(b, s, i, "stale ids_to_price_level")
        ELSE LET quantity == find_quantity(side[tag.price], id)
             IN  IF quantity = None
                 THEN Panicked(b, s, i, "stale ids_to_price_level")
                 ELSE Post(b, s, i, QueryOutcome(tag.side, quantity, tag.price), "none")

\* ---------------------------------------------------------------- cancel
\* NonEmpty<VecDeque>::pop_once_by(predicate): the queue without the first
\* element the predicate accepts, and that element; found is FALSE when no
\* element is accepted (the method returns a T, so it cannot return then)
pop_once_by(level, id) ==
    LET hits == {n \in 1..Len(level) : level[n][1] = id}
        at == CHOOSE n \in hits : \A m \in hits : n <= m
    IN  IF hits = {} THEN [found |-> FALSE, rest |-> level, value |-> <<None, None>>]
        ELSE [found |-> TRUE,
              rest |-> SubSeq(level, 1, at - 1) \o SubSeq(level, at + 1, Len(level)),
              value |-> level[at]]

\* cancel with a fault seeded: what pop_once_by leaves is reinserted without
\* looking whether any order is left
cancel_reinserts_level(b, s, i, id) ==
    IF id \notin DOMAIN i THEN Post(b, s, i, Outcome("NoSuchOrder", None, None, None, ""), "none")
    ELSE
    LET tag == i[id]
        price == tag.price
        i1 == remove(i, id)
    IN  IF tag.side = "Buy" THEN
            IF price \notin DOMAIN b THEN Panicked(b, s, i1, "stale ids_to_price_level")
            ELSE
            LET b1 == remove(b, price)
                popped == pop_once_by(b[price], id)
                \* self.buys.insert_uncontended(price, remaining_level)
                ins == insert_uncontended(b1, price, popped.rest)
            IN  IF ~popped.found THEN Panicked(b1, s, i1, "pop_once_by found nothing")
                ELSE IF ins.contended THEN Panicked(ins.map, s, i1, "key was contended")
                ELSE Post(ins.map, s, i1, Outcome("Cancelled", None, None, None, ""), "none")
        ELSE
            IF price \notin DOMAIN s THEN Panicked(b, s, i1, "stale ids_to_price_level")
            ELSE
            LET s1 == remove(s, price)
                popped == pop_once_by(s[price], id)
                \* self.buys.insert_uncontended(price, remaining_level)
                ins == insert_uncontended(b, price, popped.rest)
            IN  IF ~popped.found THEN Panicked(b, s1, i1, "pop_once_by found nothing")
                ELSE IF ins.contended THEN Panicked(ins.map, s1, i1, "key was contended")
                ELSE Post(ins.map, s1, i1, Outcome("Cancelled", None, None, None, ""), "none")
\* cancel: the index gives the side and level; the level is taken out, the
\* order popped, and what is left is put back
cancel(b, s, i, id) ==
    IF id \notin DOMAIN i THEN Post(b, s, i, Outcome("NoSuchOrder", None, None, None, ""), "none")
    ELSE
    LET tag == i[id]
        price == tag.price
        i1 == remove(i, id)
    IN  IF tag.side = "Buy" THEN
            IF price \notin DOMAIN b THEN Panicked(b, s, i1, "stale ids_to_price_level")
            ELSE
            LET b1 == remove(b, price)
                popped == pop_once_by(b[price], id)
                \* self.buys.insert_uncontended(price, remaining_level)
                ins == insert_uncontended(b1, price, popped.rest)
            IN  IF ~popped.found THEN Panicked(b1, s, i1, "pop_once_by found nothing")
                ELSE IF popped.rest = <<>> THEN Post(b1, s, i1, Outcome("Cancelled", None, None, None, ""), "none")
                ELSE IF ins.contended THEN Panicked(ins.map, s, i1, "key was contended")
                ELSE Post(ins.map, s, i1, Outcome("Cancelled", None, None, None, ""), "none")
        ELSE
            IF price \notin DOMAIN s THEN Panicked(b, s, i1, "stale ids_to_price_level")
            ELSE
            LET s1 == remove(s, price)
                popped == pop_once_by(s[price], id)
                \* self.buys.insert_uncontended(price, remaining_level)
                ins == insert_uncontended(b, price, popped.rest)
            IN  IF ~popped.found THEN Panicked(b, s1, i1, "pop_once_by found nothing")
                ELSE IF popped.rest = <<>> THEN Post(b, s1, i1, Outcome("Cancelled", None, None, None, ""), "none")
                ELSE IF ins.contended THEN Panicked(ins.map, s1, i1, "key was contended")
                ELSE Post(ins.map, s1, i1, Outcome("Cancelled", None, None, None, ""), "none")

\* ------------------------------------------------------- buys() / sells()
\* BTreeMap::iter: the keys in ascending order
RECURSIVE iter(_)
iter(keys) ==
    IF keys = {} THEN <<>>
    ELSE LET k == CHOOSE x \in keys : \A y \in keys : x <= y
         IN  <<k>> \o iter(keys \ {k})
\* Iterator::rev
rev(seq) == [n \in 1..Len(seq) |-> seq[Len(seq) + 1 - n]]
\* level.iter().map(|(id, quantity)| Order { quantity, unit_price, id })
orders_at(map, price) ==
    [n \in 1..Len(map[price]) |->
        [quantity |-> map[price][n][2], unit_price |-> price, id |-> map[price][n][1]]]
\* .flat_map(..).collect(): the orders of the levels, level after level
RECURSIVE flat_map(_, _)
flat_map(map, prices) ==
    IF prices = <<>> THEN <<>>
    ELSE orders_at(map, Head(prices)) \o flat_map(map, Tail(prices))
\* ReportingOrderBookApi::buys: self.buys.iter().rev().flat_map(..)
list_buys(b) == flat_map(b, rev(iter(DOMAIN b)))
\* ReportingOrderBookApi::sells: self.sells.iter().flat_map(..)
list_sells(s) == flat_map(s, iter(DOMAIN s))

\* --------------------------------------------------------------- actions
EmptyMap == [k \in {} |-> <<>>]
Call(op, quantity, unit_price, id) ==
    [op |-> op, quantity |-> quantity, unit_price |-> unit_price, id |-> id]

\* Option<NonEmpty<..>>: None, Some(inner), and the inner of a Some
NoQueue == <<>>
Some(inner) == <<inner>>
unwrap(option) == option[1]
ContainerCall(op, arg, before, value) ==
    [op |-> op, arg |-> arg, before |-> before, value |-> value]
\* no container has been made yet
NoContainer ==
    /\ nonempty = [type |-> "none", value |-> NoQueue]
    /\ btree_map = [k \in {} |-> 0]
    /\ container_call = ContainerCall("none", None, <<>>, None)
    /\ container_failure = "none"

\* Init with a fault seeded: the new book holds a level with an order and no
\* index entry for it
InitWithRestingOrder ==
    /\ buys = (1 :> <<<<1, 1>>>>)
    /\ sells = [k \in {} |-> <<>>]
    /\ ids_to_price_level = [k \in {} |-> <<>>]
    /\ next_id = 2
    /\ overflow_checks \in BOOLEAN
    /\ pc = "idle"
    /\ call = Call("none", None, None, None)
    /\ cond_args = <<>>
    /\ cond_ret = "none"
    /\ result = NoOutcome
    /\ failure = "none"
    /\ returned_ids = {}
    /\ NoContainer
\* Default::default(); the build is fixed for the whole run
Init ==
    /\ buys = EmptyMap
    /\ sells = EmptyMap
    /\ ids_to_price_level = EmptyMap
    /\ next_id = 1
    /\ overflow_checks \in BOOLEAN
    /\ pc = "idle"
    /\ call = Call("none", None, None, None)
    /\ cond_args = <<>>
    /\ cond_ret = "none"
    /\ result = NoOutcome
    /\ failure = "none"
    /\ returned_ids = {}
    /\ NoContainer

Ready == pc = "idle" /\ failure = "none"

\* what a finished call, or the finished part of one, leaves
Apply(post) ==
    /\ buys' = post.buys
    /\ sells' = post.sells
    /\ ids_to_price_level' = post.ids
    /\ result' = post.result
    /\ failure' = post.failure
    /\ returned_ids' = IF post.result.kind = "EnteredOrderBook"
                       THEN returned_ids \cup {post.result.id}
                       ELSE returned_ids

\* ConditionalBuy with a fault seeded: the identifier is drawn at the top of
\* the call, so a call that goes on to match has drawn one too
ConditionalBuyDrawsIdFirst(quantity, unit_price) ==
    /\ Ready
    /\ call' = Call("conditional_buy", quantity, unit_price, None)
    /\ IF buy_crosses(sells, unit_price)
       THEN /\ next_id <= MaxOrders
            /\ pc' = "condition"
            /\ cond_args' = <<buy_condition_arg(sells)>>
            /\ Apply(Post(buys, sells, ids_to_price_level, NoOutcome, "none"))
            /\ next_id' = next_id + 1
       ELSE /\ next_id <= MaxOrders
            /\ pc' = "idle"
            /\ cond_args' = <<>>
            /\ next_id' = next_id + 1
            /\ Apply(buy_enter(buys, sells, ids_to_price_level, next_id, quantity, unit_price))
    /\ cond_ret' = "none"
    /\ UNCHANGED overflow_checks
    /\ UNCHANGED containers
\* conditional_buy up to its return, or up to the invocation of `condition`
ConditionalBuy(quantity, unit_price) ==
    /\ Ready
    /\ call' = Call("conditional_buy", quantity, unit_price, None)
    /\ IF buy_crosses(sells, unit_price)
       THEN /\ pc' = "condition"
            /\ cond_args' = <<buy_condition_arg(sells)>>
            /\ Apply(Post(buys, sells, ids_to_price_level, NoOutcome, "none"))
            /\ UNCHANGED next_id
       ELSE /\ next_id <= MaxOrders
            /\ pc' = "idle"
            /\ cond_args' = <<>>
            /\ next_id' = next_id + 1
            /\ Apply(buy_enter(buys, sells, ids_to_price_level, next_id, quantity, unit_price))
    /\ cond_ret' = "none"
    /\ UNCHANGED overflow_checks
    /\ UNCHANGED containers

\* conditional_sell up to its return, or up to the invocation of `condition`
ConditionalSell(quantity, unit_price) ==
    /\ Ready
    /\ call' = Call("conditional_sell", quantity, unit_price, None)
    /\ IF sell_crosses(buys, unit_price)
       THEN /\ pc' = "condition"
            /\ cond_args' = <<sell_condition_arg(buys)>>
            /\ Apply(Post(buys, sells, ids_to_price_level, NoOutcome, "none"))
            /\ UNCHANGED next_id
       ELSE /\ next_id <= MaxOrders
            /\ pc' = "idle"
            /\ cond_args' = <<>>
            /\ next_id' = next_id + 1
            /\ Apply(sell_enter(buys, sells, ids_to_price_level, next_id, quantity, unit_price))
    /\ cond_ret' = "none"
    /\ UNCHANGED overflow_checks
    /\ UNCHANGED containers

\* `condition` returns ControlFlow::Break(reason): return Err(reason)
ConditionBreak(reason) ==
    /\ pc = "condition" /\ failure = "none"
    /\ pc' = "idle"
    /\ cond_ret' = reason
    /\ Apply(condition_break(buys, sells, ids_to_price_level, reason))
    /\ UNCHANGED <<next_id, overflow_checks, call, cond_args>>
    /\ UNCHANGED containers

\* ConditionContinue with a fault seeded: what the incoming order has left after the
\* trade is booked as a new order on its own side
ConditionContinueBooksResidual ==
    /\ pc = "condition" /\ failure = "none"
    /\ pc' = "idle"
    /\ cond_ret' = "Continue"
    /\ LET buying == call.op = "conditional_buy"
            post == IF buying
                    THEN buy_commit(buys, sells, ids_to_price_level, overflow_checks,
                                    call.quantity, call.unit_price)
                    ELSE sell_commit(buys, sells, ids_to_price_level, overflow_checks,
                                     call.quantity, call.unit_price)
            residual == post.failure = "none" /\ post.result.kind =
                            (IF buying THEN "SellerFullyExecuted" ELSE "BuyerFullyExecuted")
            booked == IF buying
                      THEN buy_enter(post.buys, post.sells, post.ids, next_id,
                                     post.result.remaining, call.unit_price)
                      ELSE sell_enter(post.buys, post.sells, post.ids, next_id,
                                      post.result.remaining, call.unit_price)
       IN  IF residual
           THEN Apply([booked EXCEPT !.result = post.result]) /\ next_id' = next_id + 1
           ELSE Apply(post) /\ next_id' = next_id
    /\ UNCHANGED <<overflow_checks, call, cond_args>>
    /\ UNCHANGED containers

\* `condition` returns ControlFlow::Continue(()): the trade is committed
ConditionContinue ==
    /\ pc = "condition" /\ failure = "none"
    /\ pc' = "idle"
    /\ cond_ret' = "Continue"
    /\ Apply(IF call.op = "conditional_buy"
             THEN buy_commit(buys, sells, ids_to_price_level, overflow_checks,
                             call.quantity, call.unit_price)
             ELSE sell_commit(buys, sells, ids_to_price_level, overflow_checks,
                              call.quantity, call.unit_price))
    /\ UNCHANGED <<next_id, overflow_checks, call, cond_args>>
    /\ UNCHANGED containers

\* unconditional_buy: conditional_buy with |_| ControlFlow::Continue(()) as its
\* condition, run to its end, and its value rebuilt
UnconditionalBuy(quantity, unit_price) ==
    /\ Ready
    /\ call' = Call("unconditional_buy", quantity, unit_price, None)
    /\ pc' = "idle"
    /\ IF buy_crosses(sells, unit_price)
       THEN /\ cond_args' = <<buy_condition_arg(sells)>>
            /\ cond_ret' = "Continue"
            /\ Apply(unconditional_result("unconditional_buy",
                        buy_commit(buys, sells, ids_to_price_level, overflow_checks,
                                   quantity, unit_price)))
            /\ UNCHANGED next_id
       ELSE /\ next_id <= MaxOrders
            /\ cond_args' = <<>>
            /\ cond_ret' = "none"
            /\ next_id' = next_id + 1
            /\ Apply(unconditional_result("unconditional_buy",
                        buy_enter(buys, sells, ids_to_price_level, next_id,
                                  quantity, unit_price)))
    /\ UNCHANGED overflow_checks
    /\ UNCHANGED containers

\* unconditional_sell: conditional_sell with |_| ControlFlow::Continue(())
UnconditionalSell(quantity, unit_price) ==
    /\ Ready
    /\ call' = Call("unconditional_sell", quantity, unit_price, None)
    /\ pc' = "idle"
    /\ IF sell_crosses(buys, unit_price)
       THEN /\ cond_args' = <<sell_condition_arg(buys)>>
            /\ cond_ret' = "Continue"
            /\ Apply(unconditional_result("unconditional_sell",
                        sell_commit(buys, sells, ids_to_price_level, overflow_checks,
                                    quantity, unit_price)))
            /\ UNCHANGED next_id
       ELSE /\ next_id <= MaxOrders
            /\ cond_args' = <<>>
            /\ cond_ret' = "none"
            /\ next_id' = next_id + 1
            /\ Apply(unconditional_result("unconditional_sell",
                        sell_enter(buys, sells, ids_to_price_level, next_id,
                                   quantity, unit_price)))
    /\ UNCHANGED overflow_checks
    /\ UNCHANGED containers

\* a submission whose quantity Positive::new turns down: there is no
\* Positive<QuantityT> to call conditional_buy / conditional_sell with, and
\* the book is not called
NotPositive(quantity, unit_price) ==
    /\ Ready
    /\ positive_new(quantity) = None
    /\ call' = Call("Positive::new", quantity, unit_price, None)
    /\ cond_args' = <<>>
    /\ cond_ret' = "none"
    /\ Apply(Post(buys, sells, ids_to_price_level,
                  Outcome("NotPositive", None, None, None, ""), "none"))
    /\ UNCHANGED <<next_id, overflow_checks, pc>>
    /\ UNCHANGED containers

Query(id) ==
    /\ Ready
    /\ call' = Call("query", None, None, id)
    /\ cond_args' = <<>>
    /\ cond_ret' = "none"
    /\ Apply(query(buys, sells, ids_to_price_level, id))
    /\ UNCHANGED <<next_id, overflow_checks, pc>>
    /\ UNCHANGED containers

Cancel(id) ==
    /\ Ready
    /\ call' = Call("cancel", None, None, id)
    /\ cond_args' = <<>>
    /\ cond_ret' = "none"
    /\ Apply(cancel(buys, sells, ids_to_price_level, id))
    /\ UNCHANGED <<next_id, overflow_checks, pc>>
    /\ UNCHANGED containers

Next ==
    \/ \E quantity \in RawQuantities, unit_price \in Prices :
          /\ positive_new(quantity) # None
          /\ ConditionalBuy(positive_new(quantity), unit_price)
    \/ \E quantity \in RawQuantities, unit_price \in Prices :
          /\ positive_new(quantity) # None
          /\ ConditionalSell(positive_new(quantity), unit_price)
    \/ \E quantity \in RawQuantities, unit_price \in Prices :
          /\ positive_new(quantity) # None
          /\ UnconditionalBuy(positive_new(quantity), unit_price)
    \/ \E quantity \in RawQuantities, unit_price \in Prices :
          /\ positive_new(quantity) # None
          /\ UnconditionalSell(positive_new(quantity), unit_price)
    \/ \E quantity \in RawQuantities, unit_price \in Prices : NotPositive(quantity, unit_price)
    \/ \E reason \in Reasons : ConditionBreak(reason)
    \/ ConditionContinue
    \/ \E id \in OrderIds : Query(id)
    \/ \E id \in OrderIds : Cancel(id)

Spec == Init /\ [][Next]_vars

\* ================================================================ claims
\* A public call has returned (no callback is running, nothing has panicked).
Returned == pc = "idle" /\ failure = "none"
\* how often id occurs in the queue a side map keeps under price
Occurrences(map, price, id) ==
    IF price \in DOMAIN map
    THEN Cardinality({n \in 1..Len(map[price]) : map[price][n][1] = id})
    ELSE 0
RECURSIVE SumOver(_, _, _)
SumOver(map, keys, id) ==
    IF keys = {} THEN 0
    ELSE LET k == CHOOSE x \in keys : TRUE
         IN  Occurrences(map, k, id) + SumOver(map, keys \ {k}, id)
\* how often id occurs in a side map
OccurrencesInSide(map, id) == SumOver(map, DOMAIN map, id)

\* C1: after any sequence of calls, one side is empty or the highest resident
\* buy price is strictly below the lowest resident sell price.
C1_NoCross ==
    Returned =>
        \/ DOMAIN buys = {}
        \/ DOMAIN sells = {}
        \/ \A bid \in DOMAIN buys, ask \in DOMAIN sells : bid < ask

\* C2: an id is a key of ids_to_price_level tagged Buy(p) (Sell(p)) if and
\* only if it occurs exactly once in the queue under p in buys (sells) and in
\* no other level of either side.
C2_ReverseIndexConsistent ==
    Returned =>
        \A id \in OrderIds :
            LET total == OccurrencesInSide(buys, id) + OccurrencesInSide(sells, id)
            IN  IF id \in DOMAIN ids_to_price_level
                THEN LET tag == ids_to_price_level[id]
                         side == IF tag.side = "Buy" THEN buys ELSE sells
                     IN  Occurrences(side, tag.price, id) = 1 /\ total = 1
                ELSE total = 0

\* ------------------------------------------------ the steps of a submission
\* the call reaches its callback
InvokesCondition == pc = "idle" /\ pc' = "condition"
\* the callback has returned Continue and the call has run to its end
CommitStep == pc = "condition" /\ pc' = "idle" /\ cond_ret' = "Continue"
Matched == CommitStep /\ failure' = "none"
Buying == call.op = "conditional_buy"
\* the side a submission in progress matches against, before and after
Opposite == IF Buying THEN sells ELSE buys
OppositeAfter == IF Buying THEN sells' ELSE buys'
\* the best price of that side: the lowest ask for a buy, the highest bid for a sell
BestPrice ==
    CHOOSE p \in DOMAIN Opposite :
        \A p2 \in DOMAIN Opposite : IF Buying THEN p <= p2 ELSE p >= p2
\* the oldest order of the best level: <<id, quantity>>
Resting == Opposite[BestPrice][1]
\* every <<id, quantity>> resident on either side
ResidentOrders(b, s) ==
    UNION {{b[p][n] : n \in 1..Len(b[p])} : p \in DOMAIN b}
    \cup UNION {{s[p][n] : n \in 1..Len(s[p])} : p \in DOMAIN s}
MatchKinds == {"MutualFullExecution", "BuyerFullyExecuted", "SellerFullyExecuted"}

\* C3: when the condition returns abort with reason R the call returns
\* exactly R, and buys, sells, the reverse index and the identifier source
\* are what they were before the call.
C3_AbortHasNoEffect ==
    [][ /\ InvokesCondition => (book' = book /\ next_id' = next_id)
        /\ (pc = "condition" /\ cond_ret' \in Reasons) =>
              /\ pc' = "idle" /\ failure' = "none"
              /\ result'.kind = "Aborted" /\ result'.reason = cond_ret'
              /\ book' = book /\ next_id' = next_id
      ]_vars
C3_Witness ==
    /\ Returned /\ result.kind = "Aborted" /\ result.reason = "R2"
    /\ call.op = "conditional_buy" /\ DOMAIN sells # {}

C5_PartialFillKeepsRestingOrder ==
    [][ (CommitStep /\ call.quantity < Resting[2]) =>
          LET price == BestPrice
              id == Resting[1]
              reduced == Resting[2] - call.quantity
          IN  /\ failure' = "none"
              /\ price \in DOMAIN OppositeAfter
              /\ OppositeAfter[price][1] = <<id, reduced>>
              /\ query(buys', sells', ids_to_price_level', id).result =
                    QueryOutcome(IF Buying THEN "Sell" ELSE "Buy", reduced, price)
      ]_vars

\* C6: when the incoming and the resting quantity differ, the reported
\* remainder is the larger minus the smaller, and the order with the smaller
\* quantity is gone.
C6_PartialFillConservation ==
    [][ (CommitStep /\ call.quantity # Resting[2]) =>
          LET q == call.quantity
              r == Resting[2]
          IN  /\ result'.kind \in MatchKinds
              /\ result'.remaining = (IF q > r THEN q - r ELSE r - q)
              /\ next_id' = next_id
              /\ q > r => \A o \in ResidentOrders(buys', sells') : o[1] # Resting[1]
      ]_vars

\* C7: every conditional_buy / conditional_sell call with a positive quantity
\* returns one of the enumerated outcomes or the abort reason; none panics.
C7_SubmissionsNeverFail ==
    call.op \in {"conditional_buy", "conditional_sell"} =>
        /\ failure = "none"
        /\ pc = "idle" =>
              result.kind \in MatchKinds \cup {"EnteredOrderBook", "Aborted"}

\* C8: no sequence of valid calls reaches the 'stale ids_to_price_level',
\* 'key was contended' or 'uuid collision' failure.
C8_NoInternalInvariantFailure ==
    failure \notin {"stale ids_to_price_level", "key was contended", "uuid collision"}

C10_AtMostOneMatch ==
    [][ Matched =>
          LET before == ResidentOrders(buys, sells)
              after == ResidentOrders(buys', sells')
              counterparty == result'.id
          IN  /\ next_id' = next_id
              /\ \A o \in after :
                    \/ o \in before
                    \/ /\ o[1] = counterparty
                       /\ \E o2 \in before : o2[1] = o[1] /\ o[2] < o2[2]
              /\ \A o \in before : o \in after \/ o[1] = counterparty
              /\ call.quantity > Resting[2] => after = before \ {Resting}
      ]_vars
\* the incoming quantity exceeded the resting one, and other orders are resident
C10_Witness ==
    /\ Returned /\ cond_ret = "Continue"
    /\ result.kind \in {"SellerFullyExecuted", "BuyerFullyExecuted"}
    /\ result.remaining > MaxQuantity
    /\ DOMAIN buys # {} /\ DOMAIN sells # {}

\* ------------------------------------------------------ query and cancel
\* the call enters the book: a submission that returns without the callback
\* and takes an identifier
EnterStep ==
    /\ pc = "idle" /\ pc' = "idle"
    /\ call'.op \in {"conditional_buy", "conditional_sell"}
    /\ next_id' # next_id
\* the side and price an order was submitted with: the tag written with the
\* order when it enters the book
SubmittedSide(op) == IF op = "conditional_buy" THEN "Buy" ELSE "Sell"

\* C11: for every resident order query(id) returns the side and the price
\* it was submitted with and the quantity its level holds for it; right
\* after a submission returned 'entered book' with id, query(id) returns the
\* submitted side, quantity and price.  (The tag of an id is written when the
\* order enters and is never rewritten, so it records the submission.)
C11_QueryRoundTrip ==
    [][ /\ \A id \in DOMAIN ids_to_price_level \cap DOMAIN ids_to_price_level' :
              ids_to_price_level'[id] = ids_to_price_level[id]
        /\ EnterStep =>
              /\ failure' = "none" /\ result'.kind = "EnteredOrderBook"
              /\ ids_to_price_level'[result'.id] =
                    [side |-> SubmittedSide(call'.op), price |-> call'.unit_price]
              /\ query(buys', sells', ids_to_price_level', result'.id).result =
                    QueryOutcome(SubmittedSide(call'.op), call'.quantity, call'.unit_price)
        /\ (pc' = "idle" /\ failure' = "none") =>
              \A o \in ResidentOrders(buys', sells') :
                  /\ o[1] \in DOMAIN ids_to_price_level'
                  /\ LET tag == ids_to_price_level'[o[1]]
                     IN  query(buys', sells', ids_to_price_level', o[1]).result =
                             QueryOutcome(tag.side, o[2], tag.price)
      ]_vars

\* a side map without the order id: its level keeps the other orders in
\* their order, and is dropped when no order is left
without(map, id) ==
    LET other(o) == o[1] # id
        keep == {p \in DOMAIN map : SelectSeq(map[p], other) # <<>>}
    IN  [p \in keep |-> SelectSeq(map[p], other)]
\* id is in a level of a side
IsResident(b, s, id) == \E o \in ResidentOrders(b, s) : o[1] = id

\* C12: cancel(id) of a resident order returns Cancelled; afterwards query(id)
\* and cancel(id) give 'no such order'; every other order keeps its side,
\* price, quantity and place in its queue; nothing is matched or booked;
\* cancelling the only resident order leaves the book empty.
C12_CancelRemovesExactlyThatOrder ==
    [][ (Ready /\ call'.op = "cancel" /\ IsResident(buys, sells, call'.id)) =>
          LET id == call'.id
          IN  /\ failure' = "none" /\ result'.kind = "Cancelled"
              /\ query(buys', sells', ids_to_price_level', id).result.kind = "NoSuchOrder"
              /\ cancel(buys', sells', ids_to_price_level', id).result.kind = "NoSuchOrder"
              /\ buys' = without(buys, id)
              /\ sells' = without(sells, id)
              /\ ids_to_price_level' = remove(ids_to_price_level, id)
              /\ next_id' = next_id
              /\ Cardinality(ResidentOrders(buys, sells)) = 1 =>
                    buys' = EmptyMap /\ sells' = EmptyMap
      ]_vars

\* C13: query(id) and cancel(id) for an id that is not resident (never
\* issued, cancelled or fully executed) return 'no such order' and leave
\* buys, sells and the reverse index as they were.
C13_LookupMissHasNoEffect ==
    Returned =>
        \A id \in OrderIds :
            ~IsResident(buys, sells, id) =>
                LET miss == Post(buys, sells, ids_to_price_level,
                                 Outcome("NoSuchOrder", None, None, None, ""), "none")
                IN  /\ query(buys, sells, ids_to_price_level, id) = miss
                    /\ cancel(buys, sells, ids_to_price_level, id) = miss
\* a cancel and a query have missed: the id was issued and is resident no
\* more, or was never issued, while other orders are resident
C13_Witness ==
    /\ Returned /\ call.op \in {"query", "cancel"} /\ result.kind = "NoSuchOrder"
    /\ ~IsResident(buys, sells, call.id)
    /\ ResidentOrders(buys, sells) # {}
    /\ call.id < next_id

\* ------------------------------------------------------------ submissions
\* a submission starts: conditional_buy / conditional_sell is called
SubmitStep ==
    /\ pc = "idle" /\ failure = "none"
    /\ call'.op \in {"conditional_buy", "conditional_sell"}
    /\ vars' # vars
\* the only resident order is <<id, quantity>>, resting at price in map
OnlyResident(map, price, order) ==
    /\ ResidentOrders(buys, sells) = {order}
    /\ price \in DOMAIN map /\ map[price] = <<order>>

ResidentOn(side) ==
    {id \in DOMAIN ids_to_price_level : ids_to_price_level[id].side = side}
ListedIds(listing) == {listing[n].id : n \in 1..Len(listing)}
\* price-time order of a listing: best price first (descending for buys,
\* ascending for sells), earlier arrival first within a price, no order twice
PriceTimeOrdered(listing, descending) ==
    \A n, k \in 1..Len(listing) :
        n < k =>
            \/ IF descending THEN listing[n].unit_price > listing[k].unit_price
                             ELSE listing[n].unit_price < listing[k].unit_price
            \/ /\ listing[n].unit_price = listing[k].unit_price
               /\ listing[n].id < listing[k].id

\* C15: buys() lists exactly the resident orders submitted as buys, by
\* descending price and then by arrival; sells() exactly those submitted as
\* sells, by ascending price and then by arrival; no order submitted on one
\* side is listed on the other.
C15_ListingOrder ==
    Returned =>
        /\ ListedIds(list_buys(buys)) = ResidentOn("Buy")
        /\ ListedIds(list_sells(sells)) = ResidentOn("Sell")
        /\ PriceTimeOrdered(list_buys(buys), TRUE)
        /\ PriceTimeOrdered(list_sells(sells), FALSE)

\* C16: the outcome of a match carries spread = |resting price - incoming
\* price|, a positive number, when the prices differ and no spread when
\* they are equal: for both calls and for each of the three outcomes.
C16_Spread ==
    [][ Matched =>
          LET resting == BestPrice
              incoming == call.unit_price
          IN  /\ result'.kind \in MatchKinds
              /\ IF resting = incoming THEN result'.spread = None
                 ELSE /\ result'.spread = (IF resting > incoming THEN resting - incoming
                                                                 ELSE incoming - resting)
                      /\ result'.spread > 0
      ]_vars
\* a sell below the best bid has matched part of the resting buy
C16_Witness ==
    /\ Returned /\ cond_ret = "Continue" /\ call.op = "conditional_sell"
    /\ result.kind = "SellerFullyExecuted" /\ result.spread = 1
    /\ call.unit_price = 1

\* ------------------------------------------------------ levels and orders
\* C17: every <<id, quantity>> held in a level of either side has
\* quantity > 0, in every reachable state; no partial fill leaves 0.
C17_PositiveResidentQuantities ==
    \A o \in ResidentOrders(buys, sells) : o[2] > 0
\* a buy has been filled from a larger resting sell, which stays resident
\* with what is left of it
C17_Witness ==
    /\ Returned /\ call.op = "conditional_buy" /\ result.kind = "BuyerFullyExecuted"
    /\ result.remaining = 1
    /\ <<result.id, result.remaining>> \in ResidentOrders(buys, sells)

\* no key of a side map has an empty queue
NoEmptyLevel(b, s) ==
    /\ \A p \in DOMAIN b : Len(b[p]) >= 1
    /\ \A p \in DOMAIN s : Len(s[p]) >= 1
\* the level of map at p holds one order, and the step takes that order out
\* of the book
LastOrderLeaves(map, p) ==
    /\ p \in DOMAIN map /\ Len(map[p]) = 1
    /\ ~IsResident(buys', sells', map[p][1][1])

\* C18: every key of buys and of sells maps to a queue of at least one
\* order; when the last order of a level is executed or cancelled, the level
\* is absent from its map right after that operation.
C18_NoEmptyPriceLevel ==
    [][ /\ NoEmptyLevel(buys, sells)
        /\ NoEmptyLevel(buys', sells')
        /\ \A p \in Prices :
              /\ LastOrderLeaves(buys, p) => p \notin DOMAIN buys'
              /\ LastOrderLeaves(sells, p) => p \notin DOMAIN sells'
      ]_vars
\* a sell has taken the only bid of the best level; a lower bid level remains
C18_Witness ==
    /\ Returned /\ call.op = "conditional_sell" /\ result.kind = "MutualFullExecution"
    /\ result.spread = 1
    /\ call.unit_price + result.spread \notin DOMAIN buys
    /\ DOMAIN buys # {}

\* ------------------------------------------------------------ identifiers
\* a submission returns 'entered book'
EnteredBook ==
    /\ pc = "idle" /\ pc' = "idle"
    /\ call'.op \in {"conditional_buy", "conditional_sell",
                     "unconditional_buy", "unconditional_sell"}
    /\ result'.kind = "EnteredOrderBook"

\* C20: the identifier source is called once by a submission that returns
\* 'entered book' and by no other call (match, abort, query, cancel); the id
\* returned is the one drawn, and differs from every id 'entered book'
\* returned before, also from ids of orders since cancelled or executed.
C20_IdentifierFreshness ==
    [][ IF EnteredBook
        THEN /\ next_id' = next_id + 1
             /\ result'.id = next_id
             /\ result'.id \notin returned_ids
             /\ returned_ids' = returned_ids \cup {result'.id}
        ELSE /\ next_id' = next_id
             /\ returned_ids' = returned_ids
      ]_vars
\* an order has entered after two others were returned their ids and have
\* left the book
C20_Witness ==
    /\ Returned /\ result.kind = "EnteredOrderBook" /\ result.id = 3
    /\ returned_ids = {1, 2, 3}
    /\ DOMAIN ids_to_price_level = {3}

UnconditionalStep ==
    /\ pc = "idle" /\ failure = "none"
    /\ call'.op \in {"unconditional_buy", "unconditional_sell"}
    /\ vars' # vars
\* what the conditional call with the same quantity and price gives from the
\* same state when its condition continues
ConditionalWithContinue(op, quantity, unit_price) ==
    IF op = "conditional_buy"
    THEN IF buy_crosses(sells, unit_price)
         THEN buy_commit(buys, sells, ids_to_price_level, overflow_checks,
                         quantity, unit_price)
         ELSE buy_enter(buys, sells, ids_to_price_level, next_id, quantity, unit_price)
    ELSE IF sell_crosses(buys, unit_price)
         THEN sell_commit(buys, sells, ids_to_price_level, overflow_checks,
                          quantity, unit_price)
         ELSE sell_enter(buys, sells, ids_to_price_level, next_id, quantity, unit_price)

\* C21: unconditional_buy / unconditional_sell give what conditional_buy /
\* conditional_sell give with a condition that always continues: the same
\* outcome variant, the same counterparty, the same remainder under the same
\* name (the buyer's stays the buyer's, the seller's the seller's), the same
\* resulting book; the abort branch is never reached.
C21_UnconditionalEquivalence ==
    [][ UnconditionalStep =>
          LET op == IF call'.op = "unconditional_buy"
                    THEN "conditional_buy" ELSE "conditional_sell"
              post == ConditionalWithContinue(op, call'.quantity, call'.unit_price)
          IN  /\ failure' = post.failure
              /\ book' = <<post.buys, post.sells, post.ids>>
              /\ result'.kind = post.result.kind
              /\ result'.id = post.result.id
              /\ result'.remaining = post.result.remaining
              /\ remaining_field(call'.op, result'.kind) =
                    remaining_field(op, post.result.kind)
              /\ result'.kind # "Aborted"
      ]_vars

\* --------------------------------------------------------------- new book
\* no call has been made on the book yet
FreshlyConstructed == call.op = "none"

\* C22: a freshly constructed (Default) book has empty buys(), empty sells()
\* and an empty reverse index.
C22_DefaultIsEmpty ==
    FreshlyConstructed =>
        /\ list_buys(buys) = <<>>
        /\ list_sells(sells) = <<>>
        /\ DOMAIN ids_to_price_level = {}
\* the book as constructed, before its first call
C22_Witness ==
    /\ FreshlyConstructed /\ pc = "idle" /\ failure = "none"
    /\ result = NoOutcome /\ next_id = 1

\* ---------------------------------------------------------- match or enter
\* no trade is possible for the submission being made: the side it would
\* match against is empty, or its best price is on the wrong side of the
\* submitted price (equal prices cross)
NoTradePossible ==
    IF call'.op = "conditional_buy"
    THEN DOMAIN sells = {} \/ \A ask \in DOMAIN sells : ask > call'.unit_price
    ELSE DOMAIN buys = {} \/ \A bid \in DOMAIN buys : bid < call'.unit_price

\* C23: conditional_buy(q, p, continue) returns 'entered book' if and only
\* if sells is empty or the lowest sell price is above p, and a match
\* outcome otherwise; conditional_sell(q, p, continue) returns 'entered book'
\* if and only if buys is empty or the highest buy price is below p.
C23_MatchDecisionRule ==
    [][ /\ SubmitStep =>
              IF NoTradePossible
              THEN pc' = "idle" /\ failure' = "none" /\ result'.kind = "EnteredOrderBook"
              ELSE pc' = "condition"
        /\ CommitStep =>
              failure' = "none" /\ result'.kind \in MatchKinds
      ]_vars

\* ------------------------------------------------------ entering the book
\* the call being made is a buy
SubmitsBuy == call'.op \in {"conditional_buy", "unconditional_buy"}

\* C24: a submission that does not match appends <<new id, quantity>> at the
\* back of the queue for its price on its own side, creating the level if
\* absent, and adds one reverse-index entry for the new id with that side
\* and price; the opposite side, every other level of the same side, the
\* earlier entries of that level and all other index entries are unchanged.
C24_EnteringTheBook ==
    [][ EnteredBook =>
          LET own == IF SubmitsBuy THEN buys ELSE sells
              ownAfter == IF SubmitsBuy THEN buys' ELSE sells'
              id == result'.id
              price == call'.unit_price
              before == IF price \in DOMAIN own THEN Len(own[price]) ELSE 0
          IN  /\ DOMAIN ownAfter = DOMAIN own \cup {price}
              /\ \A k \in DOMAIN own \ {price} : ownAfter[k] = own[k]
              /\ Len(ownAfter[price]) = before + 1
              /\ ownAfter[price][before + 1] = <<id, call'.quantity>>
              /\ \A n \in 1..before : ownAfter[price][n] = own[price][n]
              /\ IF SubmitsBuy THEN sells' = sells ELSE buys' = buys
              /\ id \notin DOMAIN ids_to_price_level
              /\ DOMAIN ids_to_price_level' = DOMAIN ids_to_price_level \cup {id}
              /\ ids_to_price_level'[id] =
                    [side |-> IF SubmitsBuy THEN "Buy" ELSE "Sell", price |-> price]
              /\ \A k \in DOMAIN ids_to_price_level :
                    ids_to_price_level'[k] = ids_to_price_level[k]
      ]_vars
\* a sell has entered behind an earlier order of its level, with another
\* sell level and a buy level resident
C24_Witness ==
    /\ Returned /\ call.op = "conditional_sell" /\ result.kind = "EnteredOrderBook"
    /\ call.unit_price \in DOMAIN sells
    /\ Len(sells[call.unit_price]) = 2
    /\ sells[call.unit_price][2] = <<result.id, call.quantity>>
    /\ DOMAIN buys # {}

\* --------------------------------------------------------- full execution
\* the side of the submission in progress, before and after
Own == IF Buying THEN buys ELSE sells
OwnAfter == IF Buying THEN buys' ELSE sells'

\* C25: when the incoming quantity is at least the resting quantity, the
\* matched order leaves its level and the reverse index; the other orders of
\* its level stay on that side at that price in their order with their
\* quantities, and a level left without orders leaves the side map; the map
\* of the incoming side is unchanged.
C25_FullExecutionOfRestingOrder ==
    [][ (CommitStep /\ call.quantity >= Resting[2]) =>
          LET price == BestPrice
              id == Resting[1]
          IN  /\ failure' = "none"
              /\ OppositeAfter =
                    IF Len(Opposite[price]) = 1
                    THEN remove(Opposite, price)
                    ELSE [Opposite EXCEPT ![price] = Tail(@)]
              /\ ids_to_price_level' = remove(ids_to_price_level, id)
              /\ OwnAfter = Own
      ]_vars

\* ---------------------------------------------------------- order lifecycle
\* the <<price, quantity>> under which id rests in a side map
Where(map, id) ==
    UNION {{<<p, map[p][n][2]>> : n \in {k \in 1..Len(map[p]) : map[p][k][1] = id}}
           : p \in DOMAIN map}
\* the <<side, price, quantity>> under which id rests in the book
Placement(b, s, id) ==
    {<<"Buy", x[1], x[2]>> : x \in Where(b, id)}
    \cup {<<"Sell", x[1], x[2]>> : x \in Where(s, id)}
\* a step in which a submission trades: the condition returned Continue, or
\* an unconditional call found a crossing level
MatchStep == CommitStep \/ (UnconditionalStep /\ cond_ret' = "Continue")
\* the side matched against, and the order at the front of its best level
MatchedSide == IF SubmitsBuy THEN "Sell" ELSE "Buy"
MatchedOrder ==
    IF SubmitsBuy THEN front(sells[ask_level(sells)])
    ELSE front(buys[bid_level(buys)])

\* C26: between entering and leaving the book an order keeps its side and
\* its price; its quantity never grows and changes only in a step where a
\* submission of the other side matches it; an order becomes resident only
\* in a step that returns 'entered book' with its id, and stops being
\* resident only by being executed in full or by cancel of its id.
C26_OrderLifecycle ==
    [][ \A id \in OrderIds :
          LET before == Placement(buys, sells, id)
              after == Placement(buys', sells', id)
              matched == MatchStep /\ MatchedOrder[1] = id
          IN  /\ \A x \in before, y \in after :
                    /\ y[1] = x[1] /\ y[2] = x[2]
                    /\ y[3] <= x[3]
                    /\ y[3] # x[3] => matched /\ MatchedSide = x[1]
              /\ (before = {} /\ after # {}) =>
                    EnteredBook /\ result'.id = id
              /\ (before # {} /\ after = {}) =>
                    \/ /\ matched /\ failure' = "none"
                       /\ call'.quantity >= MatchedOrder[2]
                    \/ /\ pc = "idle" /\ call'.op = "cancel" /\ call'.id = id
                       /\ result'.kind = "Cancelled"
      ]_vars

\* ------------------------------------------------- resident-quantity totals
\* the sum of the quantities of a queue, and of every queue of a side map
RECURSIVE level_quantity(_)
level_quantity(level) ==
    IF level = <<>> THEN 0 ELSE level[1][2] + level_quantity(Tail(level))
RECURSIVE total_quantity(_)
total_quantity(map) ==
    IF DOMAIN map = {} THEN 0
    ELSE level_quantity(map[first_key(map)]) + total_quantity(remove(map, first_key(map)))
Min(a, b) == IF a <= b THEN a ELSE b
\* the side maps of the submission being made and of the other side
Incoming == IF SubmitsBuy THEN buys ELSE sells
IncomingAfter == IF SubmitsBuy THEN buys' ELSE sells'
Matchable == IF SubmitsBuy THEN sells ELSE buys
MatchableAfter == IF SubmitsBuy THEN sells' ELSE buys'

\* C27: a committed match of an incoming quantity q with a resting quantity
\* r lowers the total resident quantity of the resting side by min(q, r) and
\* leaves the total of the incoming side as it was; 'entered book' raises
\* the incoming side's total by q; cancel lowers the total of the cancelled
\* order's side by that order's remaining quantity and leaves the other.
C27_ResidentQuantityAccounting ==
    [][ /\ MatchStep =>
              /\ failure' = "none"
              /\ total_quantity(MatchableAfter) =
                    total_quantity(Matchable) - Min(call'.quantity, MatchedOrder[2])
              /\ total_quantity(IncomingAfter) = total_quantity(Incoming)
        /\ EnteredBook =>
              /\ total_quantity(IncomingAfter) = total_quantity(Incoming) + call'.quantity
              /\ total_quantity(MatchableAfter) = total_quantity(Matchable)
        /\ (Ready /\ call'.op = "cancel" /\ IsResident(buys, sells, call'.id)) =>
              \E x \in Placement(buys, sells, call'.id) :
                  /\ total_quantity(buys') =
                        total_quantity(buys) - (IF x[1] = "Buy" THEN x[3] ELSE 0)
                  /\ total_quantity(sells') =
                        total_quantity(sells) - (IF x[1] = "Sell" THEN x[3] ELSE 0)
      ]_vars

\* ====================================================== containers alone
\* NonEmpty<Vec<T>>, NonEmpty<VecDeque<T>> and BTreeMapExt of util.rs, called
\* in any order on a value of their own while the order book stays as built.
Values == 1..MaxValue
Keys == 1..MaxKey

\* NonEmpty::vec(value) / NonEmpty<Vec>::new
vec(value) == <<value>>
\* NonEmpty<Vec>::push
push(level, value) == Append(level, value)
\* self.0.pop() of NonEmpty<Vec>::pop: the inner vec left, and the value
pop(level) ==
    [rest |-> SubSeq(level, 1, Len(level) - 1), value |-> level[Len(level)]]
\* self.0.pop_back() of NonEmpty<VecDeque>::pop_back
pop_back(level) ==
    [rest |-> SubSeq(level, 1, Len(level) - 1), value |-> level[Len(level)]]
\* nonempty_or_none with a fault seeded: self is handed back whatever is left
nonempty_or_always_some(inner) == Some(inner)
\* match self.0.len() { 0 => (None, value), _ => (Some(self), value) }
nonempty_or_none(inner) == IF Len(inner) = 0 THEN NoQueue ELSE Some(inner)

\* the value the caller holds after a call: nothing once None came back
Held(type, option) ==
    IF option = NoQueue THEN [type |-> "none", value |-> NoQueue]
    ELSE [type |-> type, value |-> option]
Holds(type) ==
    /\ container_failure = "none"
    /\ nonempty.type = type
    /\ nonempty.value # NoQueue

VecDequeNew(value) ==
    /\ container_failure = "none"
    /\ nonempty.value = NoQueue
    /\ nonempty' = Held("VecDeque", Some(vecdeque(value)))
    /\ container_call' = ContainerCall("new", value, <<>>, None)
    /\ UNCHANGED <<btree_map, container_failure, order_book>>

VecNew(value) ==
    /\ container_failure = "none"
    /\ nonempty.value = NoQueue
    /\ nonempty' = Held("Vec", Some(vec(value)))
    /\ container_call' = ContainerCall("new", value, <<>>, None)
    /\ UNCHANGED <<btree_map, container_failure, order_book>>

PushBack(value) ==
    /\ Holds("VecDeque")
    /\ Len(unwrap(nonempty.value)) < MaxLen
    /\ nonempty' = Held("VecDeque", Some(push_back(unwrap(nonempty.value), value)))
    /\ container_call' = ContainerCall("push_back", value, unwrap(nonempty.value), None)
    /\ UNCHANGED <<btree_map, container_failure, order_book>>

PushFront(value) ==
    /\ Holds("VecDeque")
    /\ Len(unwrap(nonempty.value)) < MaxLen
    /\ nonempty' = Held("VecDeque", Some(push_front(unwrap(nonempty.value), value)))
    /\ container_call' = ContainerCall("push_front", value, unwrap(nonempty.value), None)
    /\ UNCHANGED <<btree_map, container_failure, order_book>>

Push(value) ==
    /\ Holds("Vec")
    /\ Len(unwrap(nonempty.value)) < MaxLen
    /\ nonempty' = Held("Vec", Some(push(unwrap(nonempty.value), value)))
    /\ container_call' = ContainerCall("push", value, unwrap(nonempty.value), None)
    /\ UNCHANGED <<btree_map, container_failure, order_book>>

\* pop_front / pop_back / pop take self and give back (Option<Self>, T);
\* .expect(..) panics when the inner collection has nothing to give
PopFront ==
    /\ Holds("VecDeque")
    /\ LET inner == unwrap(nonempty.value)
       IN  IF inner = <<>>
           THEN /\ container_failure' = "inner vecdeque is never empty"
                /\ container_call' = ContainerCall("pop_front", None, inner, None)
                /\ UNCHANGED nonempty
           ELSE /\ nonempty' = Held("VecDeque", nonempty_or_none(pop_front(inner).rest))
                /\ container_call' =
                      ContainerCall("pop_front", None, inner, pop_front(inner).value)
                /\ UNCHANGED container_failure
    /\ UNCHANGED <<btree_map, order_book>>

PopBack ==
    /\ Holds("VecDeque")
    /\ LET inner == unwrap(nonempty.value)
       IN  IF inner = <<>>
           THEN /\ container_failure' = "inner vecdeque is never empty"
                /\ container_call' = ContainerCall("pop_back", None, inner, None)
                /\ UNCHANGED nonempty
           ELSE /\ nonempty' = Held("VecDeque", nonempty_or_none(pop_back(inner).rest))
                /\ container_call' =
                      ContainerCall("pop_back", None, inner, pop_back(inner).value)
                /\ UNCHANGED container_failure
    /\ UNCHANGED <<btree_map, order_book>>

Pop ==
    /\ Holds("Vec")
    /\ LET inner == unwrap(nonempty.value)
       IN  IF inner = <<>>
           THEN /\ container_failure' = "inner vec is never empty"
                /\ container_call' = ContainerCall("pop", None, inner, None)
                /\ UNCHANGED nonempty
           ELSE /\ nonempty' = Held("Vec", nonempty_or_none(pop(inner).rest))
                /\ container_call' = ContainerCall("pop", None, inner, pop(inner).value)
                /\ UNCHANGED container_failure
    /\ UNCHANGED <<btree_map, order_book>>

\* map.insert_uncontended(key, value): the insert is made, then the panic
InsertUncontended(key, value) ==
    /\ container_failure = "none"
    /\ LET ins == insert_uncontended(btree_map, key, value)
       IN  /\ btree_map' = ins.map
           /\ container_failure' =
                 IF ins.contended THEN "key was contended" ELSE "none"
    /\ container_call' = ContainerCall("insert_uncontended", <<key, value>>, btree_map, None)
    /\ UNCHANGED <<nonempty, order_book>>

ContainerNext ==
    \/ \E value \in Values : VecDequeNew(value)
    \/ \E value \in Values : VecNew(value)
    \/ \E value \in Values : PushBack(value)
    \/ \E value \in Values : PushFront(value)
    \/ \E value \in Values : Push(value)
    \/ PopFront
    \/ PopBack
    \/ Pop
    \/ \E key \in Keys, value \in Values : InsertUncontended(key, value)

ContainerSpec == Init /\ [][ContainerNext]_vars

\* C28: pop_front returns the first element, pop_back and pop the last; None
\* comes back with it exactly when the queue held one element, otherwise the
\* queue comes back holding the other elements in their order; no NonEmpty
\* made by new / push / push_back / push_front / pop* holds zero elements,
\* so no pop finds its inner collection empty.
C28_NonEmptyRemoval ==
    LET before == container_call.before
        left == unwrap(nonempty.value)
    IN  /\ nonempty.value # NoQueue => Len(left) >= 1
        /\ container_failure \notin
              {"inner vecdeque is never empty", "inner vec is never empty"}
        /\ container_call.op \in {"pop_front", "pop_back", "pop"} =>
              /\ (nonempty.value = NoQueue) <=> (Len(before) = 1)
              /\ nonempty.value # NoQueue => Len(left) = Len(before) - 1
        /\ container_call.op = "pop_front" =>
              /\ container_call.value = before[1]
              /\ nonempty.value # NoQueue =>
                    \A n \in 1..Len(left) : left[n] = before[n + 1]
        /\ container_call.op \in {"pop_back", "pop"} =>
              /\ container_call.value = before[Len(before)]
              /\ nonempty.value # NoQueue =>
                    \A n \in 1..Len(left) : left[n] = before[n]
\* pop_front on a queue of three, built with push_front and push_back, gave
\* back the first element and the other two in their order
C28_Witness ==
    /\ container_call.op = "pop_front"
    /\ container_call.before = <<2, 1, 2>>
    /\ container_call.value = 2
    /\ nonempty = [type |-> "VecDeque", value |-> Some(<<1, 2>>)]

\* C29: insert_uncontended on a map that holds the key ends in the panic
\* "key was contended", never in a quiet overwrite; on a map without the key
\* it adds the pair (key, value) and leaves every other entry as it was.
C29_InsertUncontended ==
    container_call.op = "insert_uncontended" =>
        LET before == container_call.before
            key == container_call.arg[1]
            value == container_call.arg[2]
        IN  IF key \in DOMAIN before
            THEN container_failure = "key was contended"
            ELSE /\ container_failure = "none"
                 /\ DOMAIN btree_map = DOMAIN before \cup {key}
                 /\ btree_map[key] = value
                 /\ \A k \in DOMAIN before : btree_map[k] = before[k]
\* a key held with another value is inserted again, beside another entry
C29_Witness ==
    /\ container_call.op = "insert_uncontended"
    /\ container_call.before = (1 :> 1) @@ (2 :> 2)
    /\ container_call.arg = <<1, 2>>
    /\ container_failure = "key was contended"

====
